---- MODULE Spec2Model ----
(***************************************************************************)
(* Rat Pedigree & Litter Tracker (src/src/App.jsx).                        *)
(*                                                                         *)
(* The record store (rats, litters, focus ids), its handlers (save,        *)
(* delete, export, import), the derived indices (byId, litById,            *)
(* childrenMap) and the two pedigree tree builders (AncestorTree,          *)
(* DescendantTree), each translated from the component code.               *)
(*                                                                         *)
(* JavaScript values: every field value is a string.  Undef stands for the *)
(* value undefined held by a property that is present; Absent marks a      *)
(* property the object does not have (reading it yields undefined).        *)
(***************************************************************************)
EXTENDS Integers, Sequences, FiniteSets, TLC

VARIABLES
    rats,           \* useState([]) line 96: the Animal collection
    litters,        \* useState([]) line 97: the Litter collection
    treeFocusId,    \* useState("") line 99
    litterFocusId,  \* useState("") line 102
    alertMsg,       \* the message of the last alert() raised by the last handler, "" if none
    download,       \* the text of the last exported backup file, NoFile before any export
    reading,        \* the file a FileReader is reading (importData), NoFile when idle
    storage,        \* localStorage[LS_KEY], line 18
    exported,       \* the collections the backup file in download or reading was made of
    op,             \* the last handler that ran, with its arguments
    prevRats,       \* rats as they were when that handler started
    prevLitters,    \* litters as they were when that handler started
    prevFocus,      \* <<treeFocusId, litterFocusId>> when that handler started
    rootId,         \* AncestorTree / DescendantTree prop
    maxDepth,       \* AncestorTree / DescendantTree prop
    treeMode,       \* "anc" | "desc", line 101
    cols,           \* the layers built so far
    curr,           \* the layer the loop holds
    d,              \* the loop counter
    pc,             \* "loop" while the for loop runs, "done" after return cols
    index,          \* the useMemo results [byId, litById, childrenMap], NoIndex before a render
    ratModel,       \* RatForm's draft, useState(empty) line 580
    litterModel,    \* LitterForm's draft, useState line 824
    queued,         \* the state updates the mount effects have queued for the next render
    mountPc,        \* the mount effect that runs next: "load", "persist", "ran", "settled"
    effectRuns,     \* how many times the mount effects have been run
    printed         \* what the last printPedigree call built, NoPrint before any call

storeVars == <<rats, litters, treeFocusId, litterFocusId, alertMsg, download, reading,
               storage, exported, op, prevRats, prevLitters, prevFocus, index,
               ratModel, litterModel, queued, mountPc, effectRuns, printed>>
formVars == <<ratModel, litterModel>>
mountVars == <<queued, mountPc, effectRuns>>
treeVars == <<rootId, maxDepth, treeMode, cols, curr, d, pc>>
vars == <<rats, litters, treeFocusId, litterFocusId, alertMsg, download, reading,
          storage, exported, op, prevRats, prevLitters, prevFocus,
          rootId, maxDepth, treeMode, cols, curr, d, pc, index,
          ratModel, litterModel, queued, mountPc, effectRuns, printed>>

----------------------------------------------------------------------------
(* Bounds of the model *)

\* longest collection the tree and index specifications draw
MaxLen == 2
\* largest maxDepth prop the tree specification draws
MaxDepth == 3
\* longest Litter collection a session builds
MaxLitters == 1
\* most kittens a Litter of a session holds
MaxKittens == 1

----------------------------------------------------------------------------
(* JavaScript values *)

Undef == "<undefined>"
Absent == "<absent>"

\* ids are opaque non-empty strings (uid, line 44)
Ids == {"a", "b", "c"}
LitterIds == {"l1", "l2"}

\* if (x): "" and undefined are falsy, every other string is truthy
Truthy(v) == v \notin {"", Undef, Absent}

\* r.f: a property the object lacks reads as undefined
Get(r, f) == IF r[f] = Absent THEN Undef ELSE r[f]

\* r.f for an object that may lack the property altogether
Prop(r, f) == IF f \in DOMAIN r THEN Get(r, f) ELSE Undef

\* x || fallback
OrElse(v, fallback) == IF Truthy(v) THEN v ELSE fallback

\* a faulty variant of uid: any id, one an Animal already has included
uidAny(used) == Ids

\* line 44: the ids uid() may return, taken to be fresh: none of the ids in use
uid(used) == Ids \ used

SeqToSet(s) == {s[i] : i \in DOMAIN s}

NoDup(s) == \A i, j \in DOMAIN s : s[i] = s[j] => i = j

\* Array.from(new Set(xs)): a Set keeps the first insertion of each value
RECURSIVE ArrayFromSet(_)
ArrayFromSet(xs) ==
    IF xs = <<>> THEN <<>>
    ELSE LET init == ArrayFromSet(SubSeq(xs, 1, Len(xs) - 1))
             x == xs[Len(xs)]
         IN IF x \in SeqToSet(init) THEN init ELSE Append(init, x)

\* Array.prototype.filter
Filter(xs, Keep(_)) == SelectSeq(xs, Keep)

\* Array.prototype.map
Map(xs, F(_)) == [i \in DOMAIN xs |-> F(xs[i])]

----------------------------------------------------------------------------
(* Index Builder: byId, litById, childrenMap *)

EmptyMap == [k \in {} |-> k]

NoIndex == [built |-> FALSE]

\* a faulty variant of FromEntries: the first entry with a key wins
RECURSIVE FromEntriesFirstWins(_)
FromEntriesFirstWins(es) ==
    IF es = <<>> THEN EmptyMap
    ELSE LET init == FromEntriesFirstWins(SubSeq(es, 1, Len(es) - 1))
             e == es[Len(es)]
         IN [k \in DOMAIN init \cup {e[1]} |-> IF k \in DOMAIN init THEN init[k] ELSE e[2]]

\* Object.fromEntries(entries): entries are written in order, so a later entry
\* with the same key overwrites an earlier one
RECURSIVE FromEntries(_)
FromEntries(es) ==
    IF es = <<>> THEN EmptyMap
    ELSE LET init == FromEntries(SubSeq(es, 1, Len(es) - 1))
             e == es[Len(es)]
         IN [k \in DOMAIN init \cup {e[1]} |-> IF k = e[1] THEN e[2] ELSE init[k]]

\* line 129 (and line 1048, 1087): Object.fromEntries(rats.map((r) => [r.id, r]))
byId(rs) == FromEntries(Map(rs, LAMBDA r : <<r.id, r>>))

\* line 130: Object.fromEntries(litters.map((l) => [l.id, l]))
litById(ls) == FromEntries(Map(ls, LAMBDA l : <<l.id, l>>))

\* a faulty variant of MapPush: the child id is put at the front of the list (unshift)
MapPushFront(m, k, v) ==
    [x \in DOMAIN m \cup {k} |->
        IF x = k THEN <<v>> \o (IF k \in DOMAIN m THEN m[k] ELSE <<>>) ELSE m[x]]

\* m.get(k).push(v), after m.set(k, []) when the key is new (lines 137-138, 141-142)
MapPush(m, k, v) ==
    [x \in DOMAIN m \cup {k} |->
        IF x = k THEN Append(IF k \in DOMAIN m THEN m[k] ELSE <<>>, v) ELSE m[x]]

\* lines 133-146: one scan of rats, the sire entry before the dam entry
RECURSIVE childrenMap(_)
childrenMap(rs) ==
    IF rs = <<>> THEN EmptyMap
    ELSE LET m0 == childrenMap(SubSeq(rs, 1, Len(rs) - 1))
             r == rs[Len(rs)]
             m1 == IF Truthy(Get(r, "sireId")) THEN MapPush(m0, Get(r, "sireId"), r.id) ELSE m0
         IN IF Truthy(Get(r, "damId")) THEN MapPush(m1, Get(r, "damId"), r.id) ELSE m1

\* childrenMap.get(id) || []   (line 1096)
Kids(m, id) == IF id \in DOMAIN m THEN m[id] ELSE <<>>

----------------------------------------------------------------------------
(* Documents: the JSON text in localStorage, in a backup file, in a file to import *)

\* A document is the text of a file or of the localStorage entry:
\*   kind "absent"   no entry (getItem returns null)
\*   kind "empty"    the empty text
\*   kind "garbage"  text JSON.parse rejects
\*   kind "null"     the text null
\*   kind "scalar"   the text of a number, string, boolean or array
\*   kind "object"   the text of an object with the top-level keys in keys
Doc(kind) == [kind |-> kind, keys |-> {}, rats |-> <<>>, litters |-> <<>>]

NoOp == [name |-> "none"]
NoExport == [made |-> FALSE]

NoFile == Doc("none")
AbsentDoc == Doc("absent")

ObjectDoc(keys, rs, ls) ==
    [kind |-> "object", keys |-> keys,
     rats |-> IF "rats" \in keys THEN rs ELSE <<>>,
     litters |-> IF "litters" \in keys THEN ls ELSE <<>>]

\* JSON.stringify leaves out a property whose value is undefined
JsonValue(v) == IF v = Undef THEN Absent ELSE v

StringifyAnimal(r) == [f \in DOMAIN r |-> JsonValue(r[f])]

StringifyLitter(l) ==
    [f \in DOMAIN l |->
        IF f = "kittens" THEN Map(l[f], StringifyAnimal) ELSE JsonValue(l[f])]

\* lines 55 and 224: JSON.stringify({ rats, litters })
JsonStringify(rs, ls) ==
    ObjectDoc({"rats", "litters"}, Map(rs, StringifyAnimal), Map(ls, StringifyLitter))

\* lines 50 and 239: JSON.parse(text) throws a SyntaxError
ParseThrows(doc) == doc.kind \in {"garbage", "empty"}

\* a faulty variant of ReadThrows: reading a property of null yields undefined
ReadNeverThrows(doc) == FALSE

\* lines 51 and 240: parsed.rats throws a TypeError when parsed is null
ReadThrows(doc) == doc.kind = "null"

\* a faulty variant of PropOrEmpty: either key missing empties both collections
PropOrEmptyBoth(doc, key) ==
    IF doc.kind = "object" /\ doc.keys = {"rats", "litters"} THEN doc[key] ELSE <<>>

\* lines 51 and 240-241: parsed.rats || [], parsed.litters || []
PropOrEmpty(doc, key) ==
    IF doc.kind = "object" /\ key \in doc.keys THEN doc[key] ELSE <<>>

EmptyState == [ok |-> FALSE, rats |-> <<>>, litters |-> <<>>]

\* lines 46-53: loadState()
loadState(raw) ==
    IF raw.kind \in {"absent", "empty"} THEN EmptyState
    ELSE IF ParseThrows(raw) \/ ReadThrows(raw) THEN EmptyState
    ELSE [ok |-> TRUE, rats |-> PropOrEmpty(raw, "rats"), litters |-> PropOrEmpty(raw, "litters")]

\* line 239: String(reader.result || "{}")
ImportText(file) == IF file.kind = "empty" THEN ObjectDoc({}, <<>>, <<>>) ELSE file

----------------------------------------------------------------------------
(* Record Store: the handlers of RatTrackerApp *)

\* lines 117-119 and 120-122: a falsy focus id defaults to the first record's id
FocusDefault(focus, coll) ==
    IF ~Truthy(focus) /\ Len(coll) > 0 THEN coll[1].id ELSE focus

\* lines 112-113 and 242-243: if (coll[0]) setFocus(coll[0].id)
FocusFirst(focus, coll) == IF Len(coll) > 0 THEN Get(coll[1], "id") ELSE focus

\* a faulty variant of saveState: the Litter collection is written empty
saveStateRatsOnly(data) == JsonStringify(data.rats, <<>>)

\* line 55: localStorage.setItem(LS_KEY, JSON.stringify(data))
saveState(data) == JsonStringify(data.rats, data.litters)

\* A handler's state updates followed by the effects of the render they cause:
\* the focus defaults (lines 117-122) and the persist effect (lines 124-127).
Commit(newRats, newLitters, newTreeFocus, newLitterFocus, alert, opRecord) ==
    /\ rats' = newRats
    /\ litters' = newLitters
    /\ treeFocusId' = FocusDefault(newTreeFocus, newRats)
    /\ litterFocusId' = FocusDefault(newLitterFocus, newLitters)
    /\ storage' = saveState([rats |-> newRats, litters |-> newLitters])
    /\ alertMsg' = alert
    /\ op' = opRecord
    /\ prevRats' = rats
    /\ prevLitters' = litters
    /\ prevFocus' = <<treeFocusId, litterFocusId>>

\* prev.findIndex((x) => x.id === id), 0 for -1
FindIndex(coll, id) ==
    IF \E i \in DOMAIN coll : coll[i].id = id
    THEN CHOOSE i \in DOMAIN coll :
            coll[i].id = id /\ \A j \in DOMAIN coll : coll[j].id = id => i <= j
    ELSE 0

\* a faulty variant of Upsert: the record is always appended
UpsertAppend(prev, x) == Append(prev, x)

\* lines 179-185 and 210-216: the updater of addOrUpdateRat and addOrUpdateLitter
Upsert(prev, x) ==
    LET i == FindIndex(prev, x.id)
    IN IF i = 0 THEN Append(prev, x) ELSE [prev EXCEPT ![i] = x]

\* faulty variants of ClearRef: no reference is cleared; every reference is cleared
ClearRefNever(v, id, empty) == v
ClearRefAlways(v, id, empty) == empty

\* lines 193-194 and 203-204: x === id ? empty : x
ClearRef(v, id, empty) == IF v = id THEN empty ELSE v

\* lines 191-196: { ...l, sireId: ..., damId: ..., kittens: l.kittens.map((k) => ({ ...k })) }
DetachLitter(l, id) ==
    [l EXCEPT !.sireId = ClearRef(Get(l, "sireId"), id, ""),
              !.damId = ClearRef(Get(l, "damId"), id, ""),
              !.kittens = Map(l.kittens, LAMBDA k : k)]

\* lines 201-205: { ...r, sireId: ..., damId: ... }
DetachRat(r, id) ==
    [r EXCEPT !.sireId = ClearRef(Get(r, "sireId"), id, Undef),
              !.damId = ClearRef(Get(r, "damId"), id, Undef)]

\* lines 198-206: the updater deleteRat passes to setRats
RatsAfterDelete(prev, id) ==
    Map(Filter(prev, LAMBDA r : r.id # id), LAMBDA r : DetachRat(r, id))

\* lines 190-197: the updater deleteRat passes to setLitters
LittersAfterDelete(prev, id) == Map(prev, LAMBDA l : DetachLitter(l, id))

\* a handler may start: the app is mounted, no file is being read and no backup
\* file waits to be imported (a backup is re-imported before the store changes)
Ready == op.name # "none" /\ reading = NoFile /\ download = NoFile

\* what a handler leaves alone besides the store
Untouched ==
    UNCHANGED <<index, rootId, maxDepth, treeMode, cols, curr, d, pc,
                ratModel, litterModel, queued, mountPc, effectRuns, printed>>

\* lines 107-127: the first render's load effect, then the render it causes with
\* its focus and persist effects
Mount ==
    /\ op.name = "none"
    /\ LET st == loadState(storage)
       IN Commit(st.rats, st.litters,
                 FocusFirst(treeFocusId, st.rats), FocusFirst(litterFocusId, st.litters),
                 "", [name |-> "mount", file |-> storage])
    /\ UNCHANGED <<download, reading, exported>>
    /\ Untouched

\* lines 178-186
addOrUpdateRat(r) ==
    /\ Ready
    /\ FindIndex(rats, r.id) # 0 \/ Len(rats) < MaxLen
    /\ Commit(Upsert(rats, r), litters, treeFocusId, litterFocusId,
              "", [name |-> "addOrUpdateRat", id |-> r.id, rec |-> r])
    /\ exported' = NoExport
    /\ UNCHANGED <<download, reading>>
    /\ Untouched

\* lines 188-207, called with the id of a listed rat (onDelete, line 384)
deleteRat(id) ==
    /\ Ready
    /\ \E i \in DOMAIN rats : rats[i].id = id
    /\ Commit(RatsAfterDelete(rats, id), LittersAfterDelete(litters, id),
              treeFocusId, litterFocusId, "", [name |-> "deleteRat", id |-> id])
    /\ exported' = NoExport
    /\ UNCHANGED <<download, reading>>
    /\ Untouched

\* lines 209-217
addOrUpdateLitter(l) ==
    /\ Ready
    /\ FindIndex(litters, l.id) # 0 \/ Len(litters) < MaxLitters
    /\ Commit(rats, Upsert(litters, l), treeFocusId, litterFocusId,
              "", [name |-> "addOrUpdateLitter", id |-> l.id, rec |-> l])
    /\ exported' = NoExport
    /\ UNCHANGED <<download, reading>>
    /\ Untouched

\* lines 219-221, called with the id of a listed litter
deleteLitter(id) ==
    /\ Ready
    /\ \E i \in DOMAIN litters : litters[i].id = id
    /\ Commit(rats, Filter(litters, LAMBDA l : l.id # id), treeFocusId, litterFocusId,
              "", [name |-> "deleteLitter", id |-> id])
    /\ exported' = NoExport
    /\ UNCHANGED <<download, reading>>
    /\ Untouched

\* the ids of the records of a collection
IdsOf(coll) == {coll[i].id : i \in DOMAIN coll}

\* byId[id]: <<>> when the map has no such key (undefined), else <<the record>>
Lookup(map, id) == IF id \in DOMAIN map THEN <<map[id]>> ELSE <<>>

\* k.sire?.id
OptionalId(found) == IF found = <<>> THEN Undef ELSE Get(found[1], "id")

\* lines 165-173: one entry of filteredKittens (empty query, nothing hidden): the
\* kitten's own properties (kept under kitten), the litter's id and date, and the
\* sire and dam records byId resolves the litter's parent ids to
FlatKitten(l, k, map) ==
    [kitten |-> k,
     litterId |-> Get(l, "id"),
     sire |-> Lookup(map, Get(l, "sireId")),
     dam |-> Lookup(map, Get(l, "damId")),
     date |-> Prop(l, "date")]

\* lines 392-403: the Animal the Rats tab's "Keep as rat" builds (true is "true")
AdoptedRat(k, id) ==
    [id |-> id,
     name |-> OrElse(Prop(k.kitten, "name"), "Unnamed"),
     sex |-> OrElse(Prop(k.kitten, "sex"), "F"),
     color |-> Prop(k.kitten, "color"),
     notes |-> Prop(k.kitten, "notes"),
     sireId |-> OptionalId(k.sire),
     damId |-> OptionalId(k.dam),
     createdFromKitten |-> "true",
     sourceLitterId |-> k.litterId,
     dob |-> OrElse(k.date, "")]

\* lines 436-445: the Animal the Litters tab's "Keep as rat" builds
AdoptedToRats(kitten, sireId, damId, id) ==
    [id |-> id,
     name |-> OrElse(Prop(kitten, "name"), "Unnamed"),
     sex |-> OrElse(Prop(kitten, "sex"), "F"),
     color |-> Prop(kitten, "color"),
     notes |-> Prop(kitten, "notes"),
     sireId |-> sireId,
     damId |-> damId,
     createdFromKitten |-> "true"]

\* lines 391-407: KittenList's onAdopt on kitten j of litter i (line 771)
onAdopt(i, j) ==
    /\ Ready
    /\ i \in DOMAIN litters
    /\ j \in DOMAIN litters[i].kittens
    /\ Len(rats) < MaxLen
    /\ \E id \in uid(IdsOf(rats)) :
          LET k == FlatKitten(litters[i], litters[i].kittens[j], byId(rats))
              newRat == AdoptedRat(k, id)
          IN Commit(Upsert(rats, newRat), litters, newRat.id, litterFocusId, "",
                    [name |-> "onAdopt", litter |-> i, kitten |-> j, rec |-> newRat])
    /\ exported' = NoExport
    /\ UNCHANGED <<download, reading>>
    /\ Untouched

\* lines 435-449: LitterList's onAdoptToRats(k, l.sireId, l.damId) on kitten j of
\* litter i (line 1032)
onAdoptToRats(i, j) ==
    /\ Ready
    /\ i \in DOMAIN litters
    /\ j \in DOMAIN litters[i].kittens
    /\ Len(rats) < MaxLen
    /\ \E id \in uid(IdsOf(rats)) :
          LET l == litters[i]
              newRat == AdoptedToRats(l.kittens[j], Get(l, "sireId"), Get(l, "damId"), id)
          IN Commit(Upsert(rats, newRat), litters, newRat.id, litterFocusId, "",
                    [name |-> "onAdoptToRats", litter |-> i, kitten |-> j, rec |-> newRat])
    /\ exported' = NoExport
    /\ UNCHANGED <<download, reading>>
    /\ Untouched

\* lines 223-233: the backup file holds JSON.stringify({ rats, litters }, null, 2)
exportData ==
    /\ Ready
    /\ download' = JsonStringify(rats, litters)
    /\ exported' = [made |-> TRUE, rats |-> rats, litters |-> litters]
    /\ alertMsg' = ""
    /\ op' = [name |-> "exportData"]
    /\ prevRats' = rats
    /\ prevLitters' = litters
    /\ prevFocus' = <<treeFocusId, litterFocusId>>
    /\ UNCHANGED <<rats, litters, treeFocusId, litterFocusId, storage, reading>>
    /\ Untouched

\* lines 235-236 and 248: importData(file) starts a FileReader on the file; the
\* user picks the backup just exported, or else one of the files at hand
importData(file) ==
    /\ op.name # "none"
    /\ reading = NoFile
    /\ file # NoFile
    /\ file = download \/ download = NoFile
    /\ reading' = file
    /\ download' = NoFile
    /\ alertMsg' = ""
    /\ exported' = IF download # NoFile THEN exported ELSE NoExport
    /\ op' = [name |-> "importData"]
    /\ prevRats' = rats
    /\ prevLitters' = litters
    /\ prevFocus' = <<treeFocusId, litterFocusId>>
    /\ UNCHANGED <<rats, litters, treeFocusId, litterFocusId, storage>>
    /\ Untouched

\* lines 237-247: reader.onload
readerOnload ==
    /\ reading # NoFile
    /\ LET text == ImportText(reading)
           opRecord == [name |-> "onload", file |-> reading]
       IN IF ParseThrows(text) \/ ReadThrows(text)
          THEN /\ alertMsg' = "Failed to import JSON"
               /\ op' = opRecord
               /\ prevRats' = rats
               /\ prevLitters' = litters
               /\ prevFocus' = <<treeFocusId, litterFocusId>>
               /\ UNCHANGED <<rats, litters, treeFocusId, litterFocusId, storage>>
          ELSE LET newRats == PropOrEmpty(text, "rats")
                   newLitters == PropOrEmpty(text, "litters")
               IN Commit(newRats, newLitters,
                         FocusFirst(treeFocusId, newRats),
                         FocusFirst(litterFocusId, newLitters),
                         "", opRecord)
    /\ reading' = NoFile
    /\ UNCHANGED <<download, exported>>
    /\ Untouched

----------------------------------------------------------------------------
(* Pedigree Tree Engine *)

\* a faulty variant of AncestorNext: an id that does not resolve is carried on
\* into the next layer
RECURSIVE AncestorNextEcho(_, _)
AncestorNextEcho(map, layer) ==
    IF layer = <<>> THEN <<>>
    ELSE LET init == AncestorNextEcho(map, SubSeq(layer, 1, Len(layer) - 1))
             id == layer[Len(layer)]
         IN IF id \in DOMAIN map
            THEN LET r == map[id]
                     n1 == IF Truthy(Get(r, "sireId")) THEN Append(init, Get(r, "sireId")) ELSE init
                 IN IF Truthy(Get(r, "damId")) THEN Append(n1, Get(r, "damId")) ELSE n1
            ELSE Append(init, id)

\* lines 1055-1062: the ids one pass over curr pushes onto next (ancestor mode)
RECURSIVE AncestorNext(_, _)
AncestorNext(map, layer) ==
    IF layer = <<>> THEN <<>>
    ELSE LET init == AncestorNext(map, SubSeq(layer, 1, Len(layer) - 1))
             id == layer[Len(layer)]
         IN IF id \in DOMAIN map
            THEN LET r == map[id]
                     n1 == IF Truthy(Get(r, "sireId")) THEN Append(init, Get(r, "sireId")) ELSE init
                 IN IF Truthy(Get(r, "damId")) THEN Append(n1, Get(r, "damId")) ELSE n1
            ELSE init

\* a faulty variant of DescendantNext: a member with no record is not expanded
RECURSIVE DescendantNextStoredOnly(_, _)
DescendantNextStoredOnly(cm, layer) ==
    IF layer = <<>> THEN <<>>
    ELSE DescendantNextStoredOnly(cm, SubSeq(layer, 1, Len(layer) - 1))
            \o (IF layer[Len(layer)] \in IdsOf(rats)
                THEN Kids(cm, layer[Len(layer)]) ELSE <<>>)

\* a faulty variant of DescendantNext: only the first member of the layer is expanded
DescendantNextFirstOnly(cm, layer) ==
    IF layer = <<>> THEN <<>> ELSE Kids(cm, layer[1])

\* lines 1094-1098: the ids one pass over curr pushes onto next (descendant mode)
RECURSIVE DescendantNext(_, _)
DescendantNext(cm, layer) ==
    IF layer = <<>> THEN <<>>
    ELSE DescendantNext(cm, SubSeq(layer, 1, Len(layer) - 1)) \o Kids(cm, layer[Len(layer)])

\* a faulty variant of BreakOnEmpty: the loop never breaks early
BreakNever(next) == FALSE

\* line 1063 / 1099: if (next.length === 0) break
BreakOnEmpty(next) == next = <<>>

\* a faulty variant of NextLayer: the layer is not deduplicated
NextLayerRaw(next) == next

\* line 1064 / 1100: curr = Array.from(new Set(next))
NextLayer(next) == ArrayFromSet(next)

\* lines 1053-1054 and 1063-1065 / 1092-1093 and 1099-1101: one iteration of the
\* for loop, given the next array its inner loop has filled
LoopBody(next) ==
    /\ pc = "loop"
    /\ d < maxDepth
    /\ cols' = Append(cols, curr)
    /\ IF BreakOnEmpty(next)
       THEN /\ pc' = "done"
            /\ UNCHANGED <<curr, d>>
       ELSE /\ curr' = NextLayer(next)
            /\ d' = d + 1
            /\ pc' = pc
    /\ UNCHANGED <<rootId, maxDepth, treeMode>>
    /\ UNCHANGED storeVars

\* lines 1047-1067: AncestorTree's layers, one loop iteration
AncestorTree ==
    /\ treeMode = "anc"
    /\ LoopBody(AncestorNext(byId(rats), curr))

\* lines 1086-1103: DescendantTree's layers, one loop iteration
DescendantTree ==
    /\ treeMode = "desc"
    /\ LoopBody(DescendantNext(childrenMap(rats), curr))

\* lines 1053 and 1066 / 1092 and 1102: d < maxDepth fails, return cols
LoopExit ==
    /\ pc = "loop"
    /\ ~(d < maxDepth)
    /\ pc' = "done"
    /\ UNCHANGED <<rootId, maxDepth, treeMode, cols, curr, d>>
    /\ UNCHANGED storeVars

\* the Animals a tree is built over: every id as a parent reference, and both
\* falsy references, "" (an empty form field) and undefined (cleared by deleteRat)
TreeAnimals ==
    [id : Ids, name : {"Ann"}, sireId : Ids \cup {""}, damId : Ids \cup {Undef}]

SeqsUpTo(S, n) == UNION {[1..k -> S] : k \in 0..n}


\* lines 565-580: the draft RatForm starts with
EmptyRatModel(id) ==
    [id |-> id, name |-> "", sex |-> "F", sireId |-> Undef, damId |-> Undef]

\* line 824: the draft LitterForm starts with
EmptyLitterModel(id) ==
    [id |-> id, date |-> "", sireId |-> "", damId |-> "", kittens |-> <<>>]

\* both forms hold their first draft
FormsIdle ==
    /\ ratModel = EmptyRatModel("a")
    /\ litterModel = EmptyLitterModel("l1")

\* printPedigree has not been called
NoPrint == [built |-> FALSE]

NoQueue == [rats |-> <<>>, litters |-> <<>>, treeFocusId |-> "", litterFocusId |-> ""]

\* the first render has not run its effects
MountIdle ==
    /\ queued = NoQueue
    /\ mountPc = "load"
    /\ effectRuns = 0

\* lines 98-102: the hooks other than the collections hold their initial values,
\* nothing is stored, and no handler has run
SessionIdle ==
    /\ treeFocusId = ""
    /\ litterFocusId = ""
    /\ alertMsg = ""
    /\ download = NoFile
    /\ reading = NoFile
    /\ op = NoOp
    /\ prevRats = <<>>
    /\ prevLitters = <<>>
    /\ prevFocus = <<"", "">>
    /\ storage = AbsentDoc
    /\ exported = NoExport
    /\ FormsIdle
    /\ MountIdle
    /\ printed = NoPrint

\* no tree is being built
TreeIdle ==
    /\ rootId = ""
    /\ maxDepth = 0
    /\ treeMode = "anc"
    /\ cols = <<>>
    /\ curr = <<>>
    /\ d = 0
    /\ pc = "done"

\* lines 1051-1052 / 1090-1091: cols = [], curr = [rootId], d = 0, for every
\* collection, every root the tree tab renders (treeFocusId is truthy, line 526)
\* and every maxDepth
TreeInit ==
    /\ rats \in SeqsUpTo(TreeAnimals, MaxLen)
    /\ litters = <<>>
    /\ SessionIdle
    /\ index = NoIndex
    /\ rootId \in Ids
    /\ maxDepth \in 0..MaxDepth
    /\ treeMode \in {"anc", "desc"}
    /\ cols = <<>>
    /\ curr = <<rootId>>
    /\ d = 0
    /\ pc = "loop"

TreeNext == AncestorTree \/ DescendantTree \/ LoopExit

TreeSpec == TreeInit /\ [][TreeNext]_vars

----------------------------------------------------------------------------
(* printPedigree, next to the ancestor tree the tree tab renders (maxDepth={4}) *)

\* lines 262 and 528: the generations printPedigree builds, and the maxDepth prop
\* the tree tab passes
PrintDepth == 4

\* a faulty variant of PrintNext: only the sire is followed
RECURSIVE PrintNextSireOnly(_, _)
PrintNextSireOnly(map, layer) ==
    IF layer = <<>> THEN <<>>
    ELSE LET init == PrintNextSireOnly(map, SubSeq(layer, 1, Len(layer) - 1))
             id == layer[Len(layer)]
         IN IF id \in DOMAIN map /\ Truthy(Get(map[id], "sireId"))
            THEN Append(init, Get(map[id], "sireId"))
            ELSE init

\* lines 264-271: the ids one pass over curr pushes onto next
RECURSIVE PrintNext(_, _)
PrintNext(map, layer) ==
    IF layer = <<>> THEN <<>>
    ELSE LET init == PrintNext(map, SubSeq(layer, 1, Len(layer) - 1))
             id == layer[Len(layer)]
         IN IF id \in DOMAIN map
            THEN LET r == map[id]
                     n1 == IF Truthy(Get(r, "sireId")) THEN Append(init, Get(r, "sireId")) ELSE init
                 IN IF Truthy(Get(r, "damId")) THEN Append(n1, Get(r, "damId")) ELSE n1
            ELSE init

\* lines 261-274: the for loop from iteration n on, given curr; what it pushes
\* onto layers
RECURSIVE PrintLayers(_, _, _)
PrintLayers(map, layer, n) ==
    IF ~(n < PrintDepth) THEN <<>>
    ELSE LET next == PrintNext(map, layer)
         IN <<layer>> \o (IF next = <<>> THEN <<>>
                          ELSE PrintLayers(map, ArrayFromSet(next), n + 1))

\* lines 251-306: printPedigree(ratId); window.open returns a window, or null when
\* the browser blocks it
printPedigree(ratId, opened) ==
    /\ IF ratId \notin DOMAIN byId(rats)
       THEN /\ alertMsg' = "Pick a rat first"
            /\ printed' = [built |-> FALSE]
       ELSE /\ alertMsg' = ""
            /\ printed' = [built |-> TRUE,
                           layers |-> PrintLayers(byId(rats), <<ratId>>, 0),
                           written |-> opened]
    /\ op' = [name |-> "printPedigree", id |-> ratId]
    /\ prevRats' = rats
    /\ prevLitters' = litters
    /\ prevFocus' = <<treeFocusId, litterFocusId>>
    /\ UNCHANGED <<rats, litters, treeFocusId, litterFocusId, storage, download, reading,
                   exported, index, ratModel, litterModel, queued, mountPc, effectRuns>>
    /\ UNCHANGED treeVars

\* every collection and every root, the ancestor tree as the tree tab renders it
PrintInit ==
    /\ rats \in SeqsUpTo(TreeAnimals, MaxLen)
    /\ litters = <<>>
    /\ SessionIdle
    /\ index = NoIndex
    /\ rootId \in Ids
    /\ maxDepth = PrintDepth
    /\ treeMode = "anc"
    /\ cols = <<>>
    /\ curr = <<rootId>>
    /\ d = 0
    /\ pc = "loop"

PrintNextStep ==
    \/ AncestorTree
    \/ LoopExit
    \/ \E ratId \in Ids, opened \in BOOLEAN : printPedigree(ratId, opened)

PrintSpec == PrintInit /\ [][PrintNextStep]_vars

\* C21: for every store and every rat id present in it, printPedigree builds
\* exactly the layers AncestorTree builds for that root with maxDepth 4 (same
\* layers, same ids, same order); for an id not in the store it builds no layers
\* and reports "Pick a rat first" (AncestorTree builds the single layer [root]).
C21_PrintMatchesTree ==
    op.name = "printPedigree" =>
        /\ (\E i \in DOMAIN rats : rats[i].id = op.id) =>
              /\ printed.built
              /\ alertMsg = ""
              /\ (pc = "done" /\ rootId = op.id) => printed.layers = cols
        /\ ~(\E i \in DOMAIN rats : rats[i].id = op.id) =>
              /\ ~printed.built
              /\ alertMsg = "Pick a rat first"
              /\ (pc = "done" /\ rootId = op.id) => cols = << <<rootId>> >>

\* C21 witness: the pedigree of a stored rat printed and its ancestor tree built,
\* four layers deep, with a layer of two ids
C21_Witness ==
    /\ op.name = "printPedigree"
    /\ op.id = rootId
    /\ pc = "done"
    /\ printed.built
    /\ Len(printed.layers) = 4
    /\ Len(cols) = 4
    /\ \E k \in 1..4 : Len(cols[k]) = 2

----------------------------------------------------------------------------
(* A session of the app *)

\* the collection a document holds under a key, empty when the key is missing
DocCollection(doc, key) == IF key \in doc.keys THEN doc[key] ELSE <<>>

Animal(id, sire, dam) == [id |-> id, name |-> "Ann", sireId |-> sire, damId |-> dam]

Litter(id, sire, dam, kittens) ==
    [id |-> id, date |-> "2024-05-01", sireId |-> sire, damId |-> dam, kittens |-> kittens]

SampleKitten == [id |-> "k1", name |-> "Fawn"]

\* what RatForm saves (lines 563-593): a fresh draft holds sireId: undefined and
\* damId: undefined until a sire (a male) or a dam (a female) is picked
RatDrafts == {Animal("a", Undef, Undef), Animal("b", "a", "c"), Animal("c", Undef, Undef)}

\* what LitterForm saves (lines 844-852): both parents picked
LitterDrafts == {Litter(id, "a", "c", <<SampleKitten>>) : id \in LitterIds}

\* the collections of the documents at hand; a parsed document holds no undefined
SampleRats == <<Animal("a", Absent, Absent), Animal("b", "a", "c")>>
SampleLitters == <<Litter("l1", "a", "c", <<SampleKitten>>)>>

\* a document in which two Animals carry the same id
DupRats == <<Animal("a", Absent, Absent), Animal("a", "b", Absent)>>

ObjectDocs ==
    {ObjectDoc(keys, SampleRats, SampleLitters) : keys \in SUBSET {"rats", "litters"}}
        \cup {ObjectDoc({"rats"}, DupRats, <<>>)}

\* what localStorage may hold when the app starts
StoredDocs ==
    {Doc("absent"), Doc("empty"), Doc("garbage"), Doc("null"), Doc("scalar")}
        \cup ObjectDocs

\* the files the user may pick to import, besides a backup just exported
ImportFiles == StoredDocs \ {Doc("absent")}

\* lines 96-102: the state of the first render, over whatever localStorage holds
Init ==
    /\ rats = <<>>
    /\ litters = <<>>
    /\ treeFocusId = ""
    /\ litterFocusId = ""
    /\ alertMsg = ""
    /\ download = NoFile
    /\ reading = NoFile
    /\ storage \in StoredDocs
    /\ exported = NoExport
    /\ op = NoOp
    /\ prevRats = <<>>
    /\ prevLitters = <<>>
    /\ prevFocus = <<"", "">>
    /\ index = NoIndex
    /\ TreeIdle
    /\ FormsIdle
    /\ MountIdle
    /\ printed = NoPrint

Next ==
    \/ Mount
    \/ \E r \in RatDrafts : addOrUpdateRat(r)
    \/ \E id \in Ids : deleteRat(id)
    \/ \E l \in LitterDrafts : addOrUpdateLitter(l)
    \/ \E id \in LitterIds : deleteLitter(id)
    \/ \E i \in 1..MaxLitters, j \in 1..MaxKittens : onAdopt(i, j)
    \/ \E i \in 1..MaxLitters, j \in 1..MaxKittens : onAdoptToRats(i, j)
    \/ exportData
    \/ \E file \in ImportFiles : importData(file)
    \/ importData(download)
    \/ readerOnload

Spec == Init /\ [][Next]_vars

----------------------------------------------------------------------------
(* Startup, effect by effect: the first render's effects run in the order they are
   declared (load, focus defaults, persist), then the render their state updates
   cause.  In development React's StrictMode runs the mount effects a second time
   before that render. *)

\* what a mount effect leaves alone
UntouchedByMount ==
    UNCHANGED <<index, rootId, maxDepth, treeMode, cols, curr, d, pc,
                ratModel, litterModel, download, reading, exported, alertMsg,
                prevRats, prevLitters, prevFocus, printed>>

\* lines 107-114: the load effect reads localStorage and queues setRats,
\* setLitters and the focus ids; rats and litters of this render stay empty
LoadEffect ==
    /\ mountPc = "load" \/ (mountPc = "ran" /\ effectRuns < 2)
    /\ LET st == loadState(storage)
       IN queued' = [rats |-> st.rats,
                     litters |-> st.litters,
                     treeFocusId |-> FocusFirst(queued.treeFocusId, st.rats),
                     litterFocusId |-> FocusFirst(queued.litterFocusId, st.litters)]
    /\ op' = IF effectRuns = 0 THEN [name |-> "loadEffect", file |-> storage] ELSE op
    /\ mountPc' = "persist"
    /\ UNCHANGED <<rats, litters, treeFocusId, litterFocusId, storage, effectRuns>>
    /\ UntouchedByMount

\* lines 117-122 find rats and litters empty and do nothing; lines 124-127: the
\* persist effect saves the collections of this render
PersistEffect ==
    /\ mountPc = "persist"
    /\ storage' = saveState([rats |-> rats, litters |-> litters])
    /\ effectRuns' = effectRuns + 1
    /\ mountPc' = "ran"
    /\ UNCHANGED <<rats, litters, treeFocusId, litterFocusId, queued, op>>
    /\ UntouchedByMount

\* the render the queued updates cause, with its focus and persist effects
\* (rats and litters are new arrays, so the persist effect runs)
Rerender ==
    /\ mountPc = "ran"
    /\ rats' = queued.rats
    /\ litters' = queued.litters
    /\ treeFocusId' = FocusDefault(queued.treeFocusId, queued.rats)
    /\ litterFocusId' = FocusDefault(queued.litterFocusId, queued.litters)
    /\ storage' = saveState([rats |-> queued.rats, litters |-> queued.litters])
    /\ op' = [name |-> "mount", file |-> op.file]
    /\ queued' = NoQueue
    /\ mountPc' = "settled"
    /\ UNCHANGED effectRuns
    /\ UntouchedByMount

\* the Animals and Litters of the documents localStorage may hold at startup
StartupAnimals == {Animal("a", Absent, Absent), Animal("b", "a", Absent)}
StartupLitters == {Litter("l1", "a", "c", <<SampleKitten>>)}

StartupDocs ==
    {Doc("absent"), Doc("empty"), Doc("garbage"), Doc("null"), Doc("scalar")}
        \cup {ObjectDoc(keys, rs, ls) :
                 keys \in SUBSET {"rats", "litters"},
                 rs \in SeqsUpTo(StartupAnimals, MaxLen),
                 ls \in SeqsUpTo(StartupLitters, MaxLitters)}

\* lines 96-102: the first render, over whatever localStorage holds
StartupInit ==
    /\ rats = <<>>
    /\ litters = <<>>
    /\ treeFocusId = ""
    /\ litterFocusId = ""
    /\ alertMsg = ""
    /\ download = NoFile
    /\ reading = NoFile
    /\ storage \in StartupDocs
    /\ exported = NoExport
    /\ op = NoOp
    /\ prevRats = <<>>
    /\ prevLitters = <<>>
    /\ prevFocus = <<"", "">>
    /\ index = NoIndex
    /\ TreeIdle
    /\ FormsIdle
    /\ MountIdle
    /\ printed = NoPrint

StartupNext == LoadEffect \/ PersistEffect \/ Rerender

StartupSpec == StartupInit /\ [][StartupNext]_vars

\* C20 as claimed: at startup with a parseable stored document D no stored data
\* is lost: once startup has settled, the in-memory collections and the document
\* in local storage both equal D (not the empty collections the persist effect
\* first wrote), also when the mount effects ran twice before the first re-render.
C20_StartupKeepsData ==
    (mountPc = "settled" /\ op.file.kind = "object") =>
        /\ rats = DocCollection(op.file, "rats")
        /\ litters = DocCollection(op.file, "litters")
        /\ storage.kind = "object"
        /\ storage.rats = DocCollection(op.file, "rats")
        /\ storage.litters = DocCollection(op.file, "litters")

----------------------------------------------------------------------------
(* The forms: RatForm and LitterForm, with onSave = addOrUpdateRat / addOrUpdateLitter *)

KittenIds == {"k1", "k2"}

\* a faulty variant of Missing: no value counts as missing
MissingNever(v) == FALSE

\* lines 587 and 846: !model.name, !model.sireId, !model.damId
Missing(v) == ~Truthy(v)

\* what a form handler leaves alone besides the store and the forms
UntouchedByForm ==
    UNCHANGED <<index, rootId, maxDepth, treeMode, cols, curr, d, pc,
                queued, mountPc, effectRuns, download, reading, exported, printed>>

\* a form handler that only edits a draft: the store is as it was
Edited(name) ==
    /\ Ready
    /\ op' = [name |-> name]
    /\ alertMsg' = ""
    /\ prevRats' = rats
    /\ prevLitters' = litters
    /\ prevFocus' = <<treeFocusId, litterFocusId>>
    /\ UNCHANGED <<rats, litters, treeFocusId, litterFocusId, storage>>
    /\ UntouchedByForm

\* the ids a RatPicker lists (lines 677, 685, 864, 868): the rats of one sex, and
\* "" for the entry None
Pickable(sex) == {""} \cup {rats[i].id : i \in {j \in DOMAIN rats : Prop(rats[j], "sex") = sex}}

\* line 608: the name input's onChange
RatFormSetName(v) ==
    /\ Edited("RatForm.setModel")
    /\ ratModel' = [ratModel EXCEPT !.name = v]
    /\ UNCHANGED litterModel

\* lines 679 and 687: the pickers' onChange, sireId: id || undefined
RatFormPick(field, id) ==
    /\ id \in Pickable(IF field = "sireId" THEN "M" ELSE "F")
    /\ Edited("RatForm.setModel")
    /\ ratModel' = [ratModel EXCEPT ![field] = OrElse(id, Undef)]
    /\ UNCHANGED litterModel

\* line 704: Clear
RatFormClear ==
    /\ Edited("RatForm.clear")
    /\ \E id \in uid(IdsOf(rats) \cup {ratModel.id}) : ratModel' = EmptyRatModel(id)
    /\ UNCHANGED litterModel

\* lines 585-593: RatForm's submit, with onSave(model) = addOrUpdateRat(model)
RatFormSubmit ==
    /\ Ready
    /\ IF Missing(ratModel.name)
       THEN /\ alertMsg' = "Name is required"
            /\ op' = [name |-> "RatForm.submit", model |-> ratModel, saved |-> FALSE]
            /\ prevRats' = rats
            /\ prevLitters' = litters
            /\ prevFocus' = <<treeFocusId, litterFocusId>>
            /\ UNCHANGED <<rats, litters, treeFocusId, litterFocusId, storage, ratModel>>
       ELSE /\ FindIndex(rats, ratModel.id) # 0 \/ Len(rats) < MaxLen
            /\ Commit(Upsert(rats, ratModel), litters, treeFocusId, litterFocusId, "",
                      [name |-> "RatForm.submit", model |-> ratModel, saved |-> TRUE])
            /\ \E id \in uid(IdsOf(rats) \cup {ratModel.id}) :
                  ratModel' = EmptyRatModel(id)
    /\ UNCHANGED litterModel
    /\ UntouchedByForm

\* lines 864 and 868: the pickers' onChange, sireId: id
LitterFormPick(field, id) ==
    /\ id \in Pickable(IF field = "sireId" THEN "M" ELSE "F")
    /\ Edited("LitterForm.setModel")
    /\ litterModel' = [litterModel EXCEPT ![field] = id]
    /\ UNCHANGED ratModel

\* lines 826-842: addKitten, with a name typed into the kitten draft
addKitten ==
    /\ Len(litterModel.kittens) < MaxKittens
    /\ Edited("LitterForm.addKitten")
    /\ \E id \in KittenIds \ IdsOf(litterModel.kittens) :
          litterModel' =
              [litterModel EXCEPT !.kittens =
                  Append(@, [id |-> id, name |-> "Fawn", sex |-> "F",
                             color |-> Undef, notes |-> Undef])]
    /\ UNCHANGED ratModel

\* line 957: Clear
LitterFormClear ==
    /\ Edited("LitterForm.clear")
    /\ \E id \in LitterIds \ (IdsOf(litters) \cup {litterModel.id}) :
          litterModel' = EmptyLitterModel(id)
    /\ UNCHANGED ratModel

\* lines 844-852: LitterForm's submit, with onSave(model) = addOrUpdateLitter(model)
LitterFormSubmit ==
    /\ Ready
    /\ IF Missing(litterModel.sireId) \/ Missing(litterModel.damId)
       THEN /\ alertMsg' = "Select both sire and dam"
            /\ op' = [name |-> "LitterForm.submit", model |-> litterModel, saved |-> FALSE]
            /\ prevRats' = rats
            /\ prevLitters' = litters
            /\ prevFocus' = <<treeFocusId, litterFocusId>>
            /\ UNCHANGED <<rats, litters, treeFocusId, litterFocusId, storage, litterModel>>
       ELSE /\ FindIndex(litters, litterModel.id) # 0 \/ Len(litters) < MaxLitters
            /\ Commit(rats, Upsert(litters, litterModel), treeFocusId, litterFocusId, "",
                      [name |-> "LitterForm.submit", model |-> litterModel, saved |-> TRUE])
            /\ \E id \in LitterIds \ (IdsOf(litters) \cup {litterModel.id}) :
                  litterModel' = EmptyLitterModel(id)
    /\ UNCHANGED ratModel
    /\ UntouchedByForm

\* the Animals the pickers list: a male and a female
FormRats ==
    << [id |-> "a", name |-> "Ann", sex |-> "M", sireId |-> Undef, damId |-> Undef],
       [id |-> "c", name |-> "Ann", sex |-> "F", sireId |-> Undef, damId |-> Undef] >>

\* the mounted app over a store of no, one or two Animals, both forms on their
\* first draft
FormInit ==
    /\ rats \in {SubSeq(FormRats, 1, n) : n \in 0..2}
    /\ litters = <<>>
    /\ treeFocusId = FocusDefault("", rats)
    /\ litterFocusId = ""
    /\ alertMsg = ""
    /\ download = NoFile
    /\ reading = NoFile
    /\ storage = saveState([rats |-> rats, litters |-> litters])
    /\ exported = NoExport
    /\ op = [name |-> "mount", file |-> AbsentDoc]
    /\ prevRats = <<>>
    /\ prevLitters = <<>>
    /\ prevFocus = <<"", "">>
    /\ index = NoIndex
    /\ TreeIdle
    /\ MountIdle
    /\ printed = NoPrint
    /\ ratModel \in {EmptyRatModel(id) : id \in uid(IdsOf(rats))}
    /\ litterModel = EmptyLitterModel("l1")

FormNext ==
    \/ \E v \in {"", "Ann"} : RatFormSetName(v)
    \/ \E field \in {"sireId", "damId"}, id \in Ids \cup {""} : RatFormPick(field, id)
    \/ RatFormClear
    \/ RatFormSubmit
    \/ \E field \in {"sireId", "damId"}, id \in Ids \cup {""} : LitterFormPick(field, id)
    \/ addKitten
    \/ LitterFormClear
    \/ LitterFormSubmit

FormSpec == FormInit /\ [][FormNext]_vars

\* C15: submitting the rat form with an empty name, or the litter form with an
\* empty sire or an empty dam, raises a message and saves nothing: the Animal and
\* Litter collections are unchanged and the form's draft, id included, is kept.
C15_FormRejects ==
    /\ (op.name = "RatForm.submit" /\ op.model.name = "") =>
          /\ alertMsg # ""
          /\ ~op.saved
          /\ rats = prevRats
          /\ litters = prevLitters
          /\ ratModel = op.model
    /\ (/\ op.name = "LitterForm.submit"
        /\ (op.model.sireId = "" \/ op.model.damId = "")) =>
          /\ alertMsg # ""
          /\ ~op.saved
          /\ rats = prevRats
          /\ litters = prevLitters
          /\ litterModel = op.model

\* C15 witness: the litter form was submitted with a sire, a kitten and no dam,
\* over a store that holds Animals
C15_Witness ==
    /\ op.name = "LitterForm.submit"
    /\ op.model.sireId # ""
    /\ op.model.damId = ""
    /\ Len(op.model.kittens) > 0
    /\ alertMsg = "Select both sire and dam"
    /\ Len(rats) = 2

----------------------------------------------------------------------------
(* Properties of the tree builders *)

\* the record the id map resolves an id to: the last one in the collection
Resolves(id) == \E i \in DOMAIN rats : rats[i].id = id
Resolved(id) ==
    rats[CHOOSE i \in DOMAIN rats :
            /\ rats[i].id = id
            /\ \A j \in DOMAIN rats : rats[j].id = id => j <= i]

NonEmptyRef(v) == v # "" /\ v # Undef

\* the non-empty sireId and damId values of the members of S that resolve
ParentsOf(S) ==
    {v \in Ids : \E id \in S :
        /\ Resolves(id)
        /\ NonEmptyRef(v)
        /\ (Get(Resolved(id), "sireId") = v \/ Get(Resolved(id), "damId") = v)}

\* the ids of the Animals whose sireId or damId is a member of S
ChildrenOf(S) ==
    {rats[i].id : i \in {j \in DOMAIN rats :
        Get(rats[j], "sireId") \in S \/ Get(rats[j], "damId") \in S}}

\* C1: in ancestor mode with maxDepth >= 1, layer 0 is exactly [root], and every
\* emitted layer k > 0 is duplicate-free and holds exactly the non-empty sireId and
\* damId values of the members of layer k-1 that resolve in the id map.
C1_AncestorLayers ==
    (treeMode = "anc" /\ maxDepth >= 1) =>
        /\ pc = "done" => Len(cols) >= 1
        /\ Len(cols) >= 1 => cols[1] = <<rootId>>
        /\ \A k \in 2..Len(cols) :
              /\ NoDup(cols[k])
              /\ SeqToSet(cols[k]) = ParentsOf(SeqToSet(cols[k - 1]))

\* C1 witness: a finished ancestor tree with a layer 2 that needed deduplication
\* (two members of layer 1 share a parent) and a member of layer 1 that did not resolve
C1_Witness ==
    /\ treeMode = "anc"
    /\ pc = "done"
    /\ Len(cols) = 3
    /\ Len(cols[2]) = 2
    /\ Len(cols[3]) = 1
    /\ \E id \in SeqToSet(cols[2]) : ~Resolves(id)

\* C2: in descendant mode with maxDepth >= 1, layer 0 is exactly [root], and every
\* emitted layer k > 0 is duplicate-free and holds exactly the ids of the Animals
\* whose sireId or damId is a member of layer k-1.
C2_DescendantLayers ==
    (treeMode = "desc" /\ maxDepth >= 1) =>
        /\ pc = "done" => Len(cols) >= 1
        /\ Len(cols) >= 1 => cols[1] = <<rootId>>
        /\ \A k \in 2..Len(cols) :
              /\ NoDup(cols[k])
              /\ SeqToSet(cols[k]) = ChildrenOf(SeqToSet(cols[k - 1]))

\* C2 witness: a finished descendant tree whose root has a child listed under it
\* twice (as sire and as dam), deduplicated in layer 1, and a grandchild layer
C2_Witness ==
    /\ treeMode = "desc"
    /\ pc = "done"
    /\ Len(cols) = 3
    /\ Len(Kids(childrenMap(rats), rootId)) > Len(cols[2])

\* whether the expansion of a layer is empty, in the mode the tree is built in
ExpansionEmpty(layer) ==
    IF treeMode = "anc" THEN ParentsOf(SeqToSet(layer)) = {}
    ELSE ChildrenOf(SeqToSet(layer)) = {}

\* the build emits at most maxDepth layers, a layer whose expansion is empty is
\* the last one, and the build returns only then or with maxDepth layers
C3_Stops ==
    /\ Len(cols) <= maxDepth
    /\ \A k \in 1..Len(cols) :
          ExpansionEmpty(cols[k]) => (k = Len(cols) /\ pc = "done")
    /\ pc = "done" =>
          (Len(cols) = maxDepth \/ ExpansionEmpty(cols[Len(cols)]))

\* every iteration of the loop emits one more layer or returns, and the loop is
\* never stuck before it returns: with at most maxDepth layers, the build ends
C3_Progress == (pc' = "done" /\ Len(cols') >= Len(cols)) \/ Len(cols') = Len(cols) + 1

\* the guards of the loop's two continuations: another iteration, or the exit
C3_CanStep ==
    /\ pc = "loop"
    /\ (d < maxDepth /\ treeMode \in {"anc", "desc"}) \/ ~(d < maxDepth)

\* C3: for any parentage data, self-parents and cycles included, both builds
\* terminate, emit at most maxDepth layers, and stop immediately after the first
\* layer whose expansion is empty.
C3_Terminates ==
    /\ []C3_Stops
    /\ [](pc = "done" \/ C3_CanStep)
    /\ [][C3_Progress]_vars

\* C3 witness: a build over a parentage cycle (the root is its own ancestor or
\* descendant two generations on) that ran to maxDepth layers
C3_Witness ==
    /\ pc = "done"
    /\ maxDepth = 3
    /\ Len(cols) = 3
    /\ cols[3] = <<rootId>>
    /\ cols[2] # <<rootId>>

\* C16: in ancestor mode an id that does not resolve to an Animal is placed in
\* its layer and is a dead end: a root absent from the store gives the single
\* layer [root], and an Animal C whose only parent reference is a dangling id x
\* gives exactly [[C], [x]] (maxDepth 2 or more), with no layer 2.
C16_DanglingDeadEnd ==
    (treeMode = "anc" /\ pc = "done") =>
        /\ (maxDepth >= 1 /\ ~Resolves(rootId)) => cols = << <<rootId>> >>
        /\ \A x \in Ids :
              (/\ maxDepth >= 2
               /\ Resolves(rootId)
               /\ ~Resolves(x)
               /\ ParentsOf({rootId}) = {x}) => cols = << <<rootId>>, <<x>> >>

\* C16 witness: a finished ancestor tree, maxDepth 3, of a stored Animal whose one
\* parent reference is an id no Animal has, over a store that holds other Animals
C16_Witness ==
    /\ treeMode = "anc"
    /\ pc = "done"
    /\ maxDepth = 3
    /\ Len(rats) = 2
    /\ Resolves(rootId)
    /\ Len(cols) = 2
    /\ Len(cols[2]) = 1
    /\ ~Resolves(cols[2][1])

\* C22: in a descendant tree every id in a layer k > 0 is the id of an Animal of
\* the collection; only layer 0 can hold an id with no record, and a root with
\* no record that stored Animals name as sire or dam still expands to exactly
\* those Animals in layer 1.
C22_DescendantsStored ==
    treeMode = "desc" =>
        /\ \A k \in 2..Len(cols) : \A i \in DOMAIN cols[k] : Resolves(cols[k][i])
        /\ d > 0 => \A i \in DOMAIN curr : Resolves(curr[i])
        /\ (/\ pc = "done"
            /\ maxDepth >= 2
            /\ ~Resolves(rootId)
            /\ ChildrenOf({rootId}) # {}) =>
              /\ Len(cols) >= 2
              /\ SeqToSet(cols[2]) = ChildrenOf({rootId})

\* C22 witness: a finished descendant tree of a root no Animal has, named as
\* parent by both stored Animals, which fill layer 1
C22_Witness ==
    /\ treeMode = "desc"
    /\ pc = "done"
    /\ ~Resolves(rootId)
    /\ Len(cols) = 2
    /\ cols[1] = <<rootId>>
    /\ Len(cols[2]) = 2

\* C17 as claimed: also with maxDepth <= 0 the output of either build contains
\* layer 0 = [root]; the layer sequence is never empty.
C17_LayerZero ==
    pc = "done" => (Len(cols) >= 1 /\ cols[1] = <<rootId>>)

----------------------------------------------------------------------------
(* The Index Builder applied to every collection *)

IndexLitters ==
    [id : LitterIds, date : {"", "2024-05-01"}, sireId : {"", "a"}, damId : {"b"},
     kittens : {<<>>}]

\* lines 129-146: the three useMemo results of one render
Reindex ==
    /\ index = NoIndex
    /\ index' = [built |-> TRUE,
                 byId |-> byId(rats),
                 litById |-> litById(litters),
                 childrenMap |-> childrenMap(rats)]
    /\ UNCHANGED <<rats, litters, treeFocusId, litterFocusId, alertMsg, download, reading,
                   storage, exported, op, prevRats, prevLitters, prevFocus>>
    /\ UNCHANGED treeVars
    /\ UNCHANGED formVars
    /\ UNCHANGED mountVars
    /\ UNCHANGED printed

\* every Animal collection (the Litter collection empty) and every Litter
\* collection (the Animal collection empty): each index reads one collection only
IndexInit ==
    /\ \/ rats \in SeqsUpTo(TreeAnimals, MaxLen) /\ litters = <<>>
       \/ rats = <<>> /\ litters \in SeqsUpTo(IndexLitters, MaxLen)
    /\ SessionIdle
    /\ index = NoIndex
    /\ TreeIdle

IndexNext == Reindex

IndexSpec == IndexInit /\ [][IndexNext]_vars

\* the parent ids: the non-empty sireId and damId values of the collection
ParentKeys ==
    {p \in Ids : \E i \in DOMAIN rats :
        Get(rats[i], "sireId") = p \/ Get(rats[i], "damId") = p}

\* the ids of the Animals whose sireId or damId equals p, in scan order
ChildIdsByFilter(p) ==
    Map(Filter(rats, LAMBDA r : Get(r, "sireId") = p \/ Get(r, "damId") = p),
        LAMBDA r : r.id)

\* in scan order, each Animal's id once for each of its sireId and damId equal to p
RECURSIVE ChildRefs(_, _)
ChildRefs(p, n) ==
    IF n = 0 THEN <<>>
    ELSE ChildRefs(p, n - 1)
            \o (IF Get(rats[n], "sireId") = p THEN <<rats[n].id>> ELSE <<>>)
            \o (IF Get(rats[n], "damId") = p THEN <<rats[n].id>> ELSE <<>>)

\* C6 as claimed: the keys are exactly the parent ids, the list under p is exactly
\* the ids of the Animals whose sireId or damId equals p in scan order, and an
\* Animal with both a sire and a dam is listed under two separate keys.
C6_Original ==
    index.built =>
        /\ DOMAIN index.childrenMap = ParentKeys
        /\ \A p \in ParentKeys : index.childrenMap[p] = ChildIdsByFilter(p)
        /\ \A i \in DOMAIN rats :
              (Truthy(Get(rats[i], "sireId")) /\ Truthy(Get(rats[i], "damId"))) =>
                 \E p, q \in DOMAIN index.childrenMap :
                    /\ p # q
                    /\ rats[i].id \in SeqToSet(index.childrenMap[p])
                    /\ rats[i].id \in SeqToSet(index.childrenMap[q])

\* C6 (amended): the keys are exactly the parent ids; the list under p holds, in
\* scan order, each Animal's id once for each of its sireId and damId that equals
\* p (twice when both do); an Animal whose sire and dam are different ids is
\* listed under both keys.
C6_ChildrenMap ==
    index.built =>
        /\ DOMAIN index.childrenMap = ParentKeys
        /\ \A p \in ParentKeys : index.childrenMap[p] = ChildRefs(p, Len(rats))
        /\ \A i \in DOMAIN rats :
              LET s == Get(rats[i], "sireId")
                  m == Get(rats[i], "damId")
              IN (Truthy(s) /\ Truthy(m) /\ s # m) =>
                    /\ rats[i].id \in SeqToSet(index.childrenMap[s])
                    /\ rats[i].id \in SeqToSet(index.childrenMap[m])

\* C6 witness: an index built over a collection in which one Animal has the same
\* id as sire and dam and another has two different parents, one shared with it
C6_Witness ==
    /\ index.built
    /\ \E i, j \in DOMAIN rats :
          /\ Truthy(Get(rats[i], "sireId"))
          /\ Get(rats[i], "sireId") = Get(rats[i], "damId")
          /\ Truthy(Get(rats[j], "sireId"))
          /\ Truthy(Get(rats[j], "damId"))
          /\ Get(rats[j], "sireId") # Get(rats[j], "damId")
          /\ Get(rats[j], "sireId") = Get(rats[i], "sireId")

\* the last record of a collection that carries the id
LastWithId(coll, id) ==
    coll[CHOOSE i \in DOMAIN coll :
            /\ coll[i].id = id
            /\ \A j \in DOMAIN coll : coll[j].id = id => j <= i]

\* C7: the id-to-Animal map has exactly the ids occurring in the collection as
\* keys, each mapped to the last record with that id; likewise the id-to-Litter map.
C7_IdMaps ==
    index.built =>
        /\ DOMAIN index.byId = {rats[i].id : i \in DOMAIN rats}
        /\ \A id \in DOMAIN index.byId : index.byId[id] = LastWithId(rats, id)
        /\ DOMAIN index.litById = {litters[i].id : i \in DOMAIN litters}
        /\ \A id \in DOMAIN index.litById : index.litById[id] = LastWithId(litters, id)

\* C7 witness: an index built over a collection in which two different records
\* share an id
C7_Witness ==
    /\ index.built
    /\ \E i, j \in DOMAIN rats : i < j /\ rats[i].id = rats[j].id /\ rats[i] # rats[j]

----------------------------------------------------------------------------
(* Properties of the record store *)

RefFields == {"sireId", "damId"}

\* C4: after deleteRat(id) no Animal has that id, and no surviving Animal and no
\* Litter has sireId or damId equal to id.
C4_DeleteCascade ==
    op.name = "deleteRat" =>
        /\ \A i \in DOMAIN rats :
              /\ rats[i].id # op.id
              /\ \A f \in RefFields : Get(rats[i], f) # op.id
        /\ \A i \in DOMAIN litters :
              \A f \in RefFields : Get(litters[i], f) # op.id

\* C4 witness: deleteRat(id) ran on a store where another Animal and a Litter
\* referred to id
C4_Witness ==
    /\ op.name = "deleteRat"
    /\ \E i \in DOMAIN prevRats :
          prevRats[i].id # op.id /\ \E f \in RefFields : Get(prevRats[i], f) = op.id
    /\ \E i \in DOMAIN prevLitters :
          \E f \in RefFields : Get(prevLitters[i], f) = op.id

\* a record after deleteRat(id) against the record before: the same fields, each
\* with the value it had, but for a sireId or damId that equalled id (a record
\* that had no sireId or damId property holds undefined there)
SameButDetached(old, new, id) ==
    /\ DOMAIN new = DOMAIN old
    /\ \A f \in DOMAIN old :
          IF f \in RefFields
          THEN (old[f] # id /\ old[f] # Absent) => new[f] = old[f]
          ELSE new[f] = old[f]

\* the records of prevRats other than the deleted one, in their order
Survivors == SelectSeq(prevRats, LAMBDA r : r.id # op.id)

\* C5: deleteRat(id) changes nothing beyond the cascade: the surviving Animals and
\* all the Litters are there in their order, each with every field unchanged but
\* for a sireId or damId that equalled id; kittens are unchanged.
C5_DeleteFrame ==
    op.name = "deleteRat" =>
        /\ Len(rats) = Len(Survivors)
        /\ \A i \in DOMAIN rats : SameButDetached(Survivors[i], rats[i], op.id)
        /\ Len(litters) = Len(prevLitters)
        /\ \A i \in DOMAIN litters : SameButDetached(prevLitters[i], litters[i], op.id)

\* C5 witness: deleteRat(id) ran on a store with a surviving Animal that referred
\* to id and to another id, and a Litter with a kitten that referred to both
C5_Witness ==
    /\ op.name = "deleteRat"
    /\ \E i \in DOMAIN Survivors :
          /\ Get(Survivors[i], "sireId") = op.id
          /\ Truthy(Get(Survivors[i], "damId"))
          /\ Get(Survivors[i], "damId") # op.id
    /\ \E i \in DOMAIN prevLitters :
          /\ Get(prevLitters[i], "sireId") = op.id
          /\ Truthy(Get(prevLitters[i], "damId"))
          /\ Get(prevLitters[i], "damId") # op.id
          /\ Len(prevLitters[i].kittens) > 0

\* C8: when reader.onload gets a document that JSON.parse rejects, or whose parsed
\* value (null) has no properties to read, an alert is raised and the collections
\* and both focus ids are what they were.
C8_ImportFailure ==
    (op.name = "onload" /\ op.file.kind \in {"garbage", "null"}) =>
        /\ alertMsg = "Failed to import JSON"
        /\ rats = prevRats
        /\ litters = prevLitters
        /\ <<treeFocusId, litterFocusId>> = prevFocus

\* C8 witness: the import of the document null failed on a store that held
\* Animals, Litters and focus ids
C8_Witness ==
    /\ op.name = "onload"
    /\ op.file.kind = "null"
    /\ alertMsg # ""
    /\ Len(prevRats) > 0
    /\ Len(prevLitters) > 0
    /\ Truthy(prevFocus[1]) /\ Truthy(prevFocus[2])

\* C9: loading an absent or unparseable stored document yields empty collections;
\* loading or importing an object document yields, for each key on its own, the
\* document's collection if the key is there and the empty collection if not.
C9_LoadDefaults ==
    /\ (op.name = "mount" /\ op.file.kind \in {"absent", "empty", "garbage", "null"}) =>
          (rats = <<>> /\ litters = <<>>)
    /\ (op.name \in {"mount", "onload"} /\ op.file.kind = "object") =>
          /\ rats = DocCollection(op.file, "rats")
          /\ litters = DocCollection(op.file, "litters")

\* C9 witness: a document with the rats key and without the litters key was
\* imported into a store that held Litters
C9_Witness ==
    /\ op.name = "onload"
    /\ op.file.kind = "object"
    /\ op.file.keys = {"rats"}
    /\ Len(rats) > 0
    /\ litters = <<>>
    /\ Len(prevLitters) > 0

\* C10 as claimed: importing the backup file just exported yields the exported
\* Animal and Litter collections, record for record and field for field.
C10_RoundTrip ==
    (op.name = "onload" /\ exported.made) =>
        /\ rats = exported.rats
        /\ litters = exported.litters

----------------------------------------------------------------------------
(* Properties of promotion ("Keep as rat") and of saving *)

Promoted == op.name \in {"onAdopt", "onAdoptToRats"}

\* the litter and the kitten a promotion was invoked on
PromotedLitter == prevLitters[op.litter]
PromotedKitten == PromotedLitter.kittens[op.kitten]

\* C11 as claimed: through either "Keep as rat" path the promoted Animal's sireId
\* and damId equal the litter's sireId and damId, whether or not those ids resolve
\* to Animals in the store.
C11_PromotedParents ==
    Promoted =>
        /\ Get(op.rec, "sireId") = Get(PromotedLitter, "sireId")
        /\ Get(op.rec, "damId") = Get(PromotedLitter, "damId")

\* C12 as claimed: every Animal created by promotion, through either path, is
\* marked createdFromKitten and its sourceLitterId is the id of the litter the
\* kitten came from.
C12_Provenance ==
    Promoted =>
        /\ Prop(op.rec, "createdFromKitten") = "true"
        /\ Prop(op.rec, "sourceLitterId") = PromotedLitter.id

\* C13: a promotion (with a fresh id from uid) appends exactly one Animal whose id
\* differs from every existing Animal id and from the kitten's id; the existing
\* Animals and the whole Litter collection are unchanged, the kitten is not marked
\* kept, so the same kitten promoted twice gives two records with distinct ids.
C13_PromotionAppends ==
    Promoted =>
        /\ rats = Append(prevRats, op.rec)
        /\ op.rec.id \notin {prevRats[i].id : i \in DOMAIN prevRats}
        /\ op.rec.id # PromotedKitten.id
        /\ litters = prevLitters
        /\ Prop(litters[op.litter].kittens[op.kitten], "kept") = Undef
        /\ \A i \in DOMAIN rats :
              (i # Len(rats) /\ Prop(rats[i], "createdFromKitten") = "true") =>
                  rats[i].id # rats[Len(rats)].id

\* C13 witness: a kitten promoted while the store already holds an Animal promoted
\* from the same kitten
C13_Witness ==
    /\ Promoted
    /\ Len(rats) = 2
    /\ Prop(rats[1], "createdFromKitten") = "true"
    /\ rats[1].name = rats[2].name
    /\ rats[1].id # rats[2].id

\* a collection after saving rec, against the collection before: rec replaces a
\* record with its id where that record was, or is appended if there was none
SavedInto(old, new, rec) ==
    IF \E i \in DOMAIN old : old[i].id = rec.id
    THEN /\ Len(new) = Len(old)
         /\ \E i \in DOMAIN old :
               /\ old[i].id = rec.id
               /\ new[i] = rec
               /\ \A j \in DOMAIN old : j # i => new[j] = old[j]
    ELSE /\ Len(new) = Len(old) + 1
         /\ new[Len(new)] = rec
         /\ \A j \in DOMAIN old : new[j] = old[j]

\* C14: addOrUpdateRat and addOrUpdateLitter are update-or-insert keyed on id: an
\* existing record is replaced in place (same length), a new one is appended
\* (length + 1); the other records keep their values and order, and the other
\* collection is untouched.
C14_Upsert ==
    /\ op.name = "addOrUpdateRat" =>
          (SavedInto(prevRats, rats, op.rec) /\ litters = prevLitters)
    /\ op.name = "addOrUpdateLitter" =>
          (SavedInto(prevLitters, litters, op.rec) /\ rats = prevRats)

\* C14 witness: a save replaced the first of two Animals by a different record
C14_Witness ==
    /\ op.name = "addOrUpdateRat"
    /\ Len(prevRats) = 2
    /\ prevRats[1].id = op.id
    /\ prevRats[1] # op.rec
    /\ rats[1] = op.rec
    /\ Len(litters) > 0

\* C18 as claimed: in every reachable store state no two Animals share an id.
C18_UniqueIds ==
    \A i, j \in DOMAIN rats : rats[i].id = rats[j].id => i = j

\* the operations that change the store, run to completion
StoreChanged ==
    \/ op.name \in {"addOrUpdateRat", "addOrUpdateLitter", "deleteRat", "deleteLitter",
                    "onAdopt", "onAdoptToRats"}
    \/ op.name = "onload" /\ alertMsg = ""

\* C19: after every state-changing operation and its effects, the document in
\* local storage is the JSON text of the current Animal and Litter collections
\* under the keys rats and litters.
C19_Persisted ==
    StoreChanged =>
        /\ storage.kind = "object"
        /\ storage.keys = {"rats", "litters"}
        /\ storage.rats = Map(rats, StringifyAnimal)
        /\ storage.litters = Map(litters, StringifyLitter)

\* C19 witness: a promotion into a store holding an Animal and a Litter, and the
\* stored document holds both Animals and the Litter
C19_Witness ==
    /\ op.name = "onAdopt"
    /\ Len(prevRats) = 1
    /\ Len(storage.rats) = 2
    /\ Len(storage.litters) = 1

====
